---- MODULE Spec2Model ----
(***************************************************************************)
(* Model of minkowski.Predictor (src/minkowski/predictor.py): the cached   *)
(* time-series cross-validation of a covariate model, the per-fold metric  *)
(* and the ROC aggregation.                                                *)
(*                                                                         *)
(* Sample indices are 0-based as in the source; TLA+ sequences are 1-based,*)
(* so row idx of a vector v is v[idx + 1] and fold f (0-based) of a cached *)
(* list l is l[f + 1].  Python's None for the cache is the empty tuple.    *)
(***************************************************************************)
EXTENDS Integers, Sequences, FiniteSets, TLC

\* ------------------------------------------------------------------ bounds

\* every label vector of up to MaxN samples is a Predictor's data
MaxN == 3
\* and so is every labelling of the WideTested last samples after a fixed
\* warm-up of two, which gives test blocks of several samples
WideTested == 4
\* largest cv_splits a Predictor is constructed with
MaxK == 3
\* largest sample count and fold count the splitter alone is run on
MaxSplitN == 12
MaxSplitK == 5
\* sample counts of the documented scenarios, beyond 1..MaxSplitN
ScenarioSizes == {100}

\* ------------------------------------------------------------ small helpers

None == << >>
NoError == "none"

\* Python's range(start, stop, step) for step > 0, as a sequence
RECURSIVE Range(_, _, _)
Range(start, stop, step) ==
    IF start >= stop THEN << >>
    ELSE <<start>> \o Range(start + step, stop, step)

\* numpy.arange(n): the index vector 0..n-1
Indices(n) == [p \in 1..n |-> p - 1]

\* v[idxs] for an index vector idxs (numpy fancy indexing)
Take(v, idxs) == [p \in 1..Len(idxs) |-> v[idxs[p] + 1]]

SeqToSet(s) == {s[p] : p \in 1..Len(s)}

\* ------------------------------------------- sklearn TimeSeriesSplit(n_splits)
\* calc_cross_validation builds TimeSeriesSplit(n_splits=cv_splits) with the
\* defaults max_train_size=None, test_size=None, gap=0, and iterates split().

Gap == 0

\* a plausible slip: a single split accepted
SplitterCtorOk_AllowsOne(n_splits) == n_splits > 0

\* the constructor rejects n_splits <= 1 (ValueError)
SplitterCtorOk(n_splits) == n_splits > 1

\* split() rejects n_folds = n_splits + 1 > n_samples (ValueError), raised when
\* the generator is first advanced
SplitSizesOk(n_samples, n_splits) ==
    /\ ~ (n_splits + 1 > n_samples)
    /\ ~ (n_samples - Gap - (n_samples \div (n_splits + 1)) * n_splits <= 0)

\* a plausible slip: the block size taken over n_splits instead of n_folds
TestSize_OverSplits(n_samples, n_splits) == n_samples \div n_splits

TestSize(n_samples, n_splits) == n_samples \div (n_splits + 1)

TestStarts(n_samples, n_splits) ==
    Range(n_samples - n_splits * TestSize(n_samples, n_splits),
          n_samples,
          TestSize(n_samples, n_splits))

\* a plausible slip: the train slice runs one index into the test block
OneSplit_Leak(n_samples, n_splits, test_start) ==
    [train |-> SubSeq(Indices(n_samples), 1, test_start - Gap + 1),
     test  |-> SubSeq(Indices(n_samples), test_start + 1,
                      test_start + TestSize(n_samples, n_splits))]

\* the (train, test) pair yielded for one test_start:
\* indices[:test_start - gap], indices[test_start:test_start + test_size]
OneSplit(n_samples, n_splits, test_start) ==
    [train |-> SubSeq(Indices(n_samples), 1, test_start - Gap),
     test  |-> SubSeq(Indices(n_samples), test_start + 1,
                      test_start + TestSize(n_samples, n_splits))]

\* everything list(cv.split(X, y)) yields, in order
Splits(n_samples, n_splits) ==
    [f \in 1..Len(TestStarts(n_samples, n_splits)) |->
        OneSplit(n_samples, n_splits, TestStarts(n_samples, n_splits)[f])]

\* the error cv = TimeSeriesSplit(...); cv.split(...) raises, if any
SplitError(n_samples, n_splits) ==
    IF ~ SplitterCtorOk(n_splits) THEN "ValueError:n_splits"
    ELSE IF ~ SplitSizesOk(n_samples, n_splits) THEN "ValueError:n_samples"
    ELSE NoError

\* ------------------------------------------------------------------ state

VARIABLES
    y,              \* self._y: the predictand, one label per sample
    cv_splits,      \* self._cv_splits
    is_binary,      \* self._is_binary: predictand dtype is bool
    cov_model,      \* self._cov_model: what the classifier was last fitted on
    cross_val_res,  \* self._cross_val_res: None or <<ground_truth, prediction>>
    last,           \* the last public call: its classifier/metric calls and outcome
    split_n,        \* splitter run alone: n_samples
    split_k,        \* splitter run alone: n_splits
    split_pc,       \* splitter run alone: "new", "ready", "iterating", "done", "error"
    split_out       \* splitter run alone: the splits yielded so far

predictor_vars == <<y, cv_splits, is_binary, cov_model, cross_val_res, last>>
splitter_vars == <<split_n, split_k, split_pc, split_out>>
vars == <<y, cv_splits, is_binary, cov_model, cross_val_res, last,
          split_n, split_k, split_pc, split_out>>

\* labels and the scores a classifier returns per row
Labels == {0, 1}
Scores == {0, 1}

\* self._X has one row per label
NSamples == Len(y)

Unfitted == [fitted |-> FALSE, train |-> << >>]
FittedOn(train) == [fitted |-> TRUE, train |-> train]

\* the classifier method get_covariate_probability calls
PredictCall(binary) == IF binary THEN "predict_proba" ELSE "predict"

\* ------------------------------------------------- the external collaborators
\* What the classifier does in one cross-validation run is chosen by the
\* environment: whether some fit or predict raises, and the score of every
\* test row of every fold.

NoFail == [fold |-> 0, stage |-> "none"]

FailPoints(k) ==
    {NoFail} \cup {[fold |-> f, stage |-> s] : f \in 1..k, s \in {"fit", "predict"}}

RunOracles(n_samples, n_splits) ==
    IF SplitError(n_samples, n_splits) # NoError
    THEN {[fail |-> NoFail, preds |-> << >>]}
    ELSE \* the scores matter only to a run in which nothing raises
         [fail : {NoFail},
          preds : [1..n_splits -> [1..TestSize(n_samples, n_splits) -> Scores]]]
         \cup [fail : FailPoints(n_splits) \ {NoFail},
               preds : {[f \in 1..n_splits |->
                           [p \in 1..TestSize(n_samples, n_splits) |-> 0]]}]

\* ----------------------------------------------------- calc_cross_validation

\* the state of the loop of calc_cross_validation: the two local lists, the
\* classifier, the calls made so far and the error that ended it, if any
LoopStart(model) ==
    [ground_truth |-> << >>, prediction |-> << >>, model |-> model,
     events |-> << >>, error |-> NoError]

\* a plausible slip: the fold is predicted before the classifier is refitted,
\* so its scores come from the fit of the fold before
FoldBody_PredictBeforeFit(st, f, sp, yv, binary, o) ==
    IF o.fail = [fold |-> f, stage |-> "predict"]
    THEN [st EXCEPT !.events = Append(@, <<PredictCall(binary), sp.test>>),
                    !.ground_truth = Append(@, Take(yv, sp.test)),
                    !.error = "PredictError"]
    ELSE IF o.fail = [fold |-> f, stage |-> "fit"]
    THEN [st EXCEPT !.events = @ \o << <<PredictCall(binary), sp.test>>,
                                       <<"fit", sp.train>> >>,
                    !.ground_truth = Append(@, Take(yv, sp.test)),
                    !.prediction = Append(@, o.preds[f]),
                    !.error = "FitError"]
    ELSE [st EXCEPT !.events = @ \o << <<PredictCall(binary), sp.test>>,
                                       <<"fit", sp.train>> >>,
                    !.model = FittedOn(sp.train),
                    !.ground_truth = Append(@, Take(yv, sp.test)),
                    !.prediction = Append(@, o.preds[f])]

\* one pass of the loop body for fold f (1-based) with split sp
FoldBody(st, f, sp, yv, binary, o) ==
    IF o.fail = [fold |-> f, stage |-> "fit"]
    THEN \* self.fit_covariate_model(train) raises
         [st EXCEPT !.events = Append(@, <<"fit", sp.train>>),
                    !.error = "FitError"]
    ELSE IF o.fail = [fold |-> f, stage |-> "predict"]
    THEN \* self.get_covariate_probability(test) raises
         [st EXCEPT !.events = @ \o << <<"fit", sp.train>>,
                                       <<PredictCall(binary), sp.test>> >>,
                    !.model = FittedOn(sp.train),
                    !.ground_truth = Append(@, Take(yv, sp.test)),
                    !.error = "PredictError"]
    ELSE [st EXCEPT !.events = @ \o << <<"fit", sp.train>>,
                                       <<PredictCall(binary), sp.test>> >>,
                    !.model = FittedOn(sp.train),
                    !.ground_truth = Append(@, Take(yv, sp.test)),
                    !.prediction = Append(@, o.preds[f])]

RECURSIVE FoldLoop(_, _, _, _, _, _)
FoldLoop(st, f, splits, yv, binary, o) ==
    IF f > Len(splits) \/ st.error # NoError THEN st
    ELSE FoldLoop(FoldBody(st, f, splits[f], yv, binary, o),
                  f + 1, splits, yv, binary, o)

\* a plausible slip: the results are stored as the loop goes, so a run that
\* raises leaves the folds before the failing one in the cache
CalcRun_Partial(yv, k, binary, model, res, o) ==
    IF SplitError(Len(yv), k) # NoError
    THEN [error |-> SplitError(Len(yv), k), events |-> << >>,
          model |-> model, res |-> res]
    ELSE LET st == FoldLoop(LoopStart(model), 1, Splits(Len(yv), k), yv, binary, o)
         IN  [error |-> st.error, events |-> st.events, model |-> st.model,
              res |-> <<SubSeq(st.ground_truth, 1, Len(st.prediction)),
                        st.prediction>>]

\* a plausible slip: the cache is reset when the run starts, so a run that
\* raises leaves it empty
CalcRun_ClearFirst(yv, k, binary, model, res, o) ==
    IF SplitError(Len(yv), k) # NoError
    THEN [error |-> SplitError(Len(yv), k), events |-> << >>,
          model |-> model, res |-> None]
    ELSE LET st == FoldLoop(LoopStart(model), 1, Splits(Len(yv), k), yv, binary, o)
         IN  [error |-> st.error, events |-> st.events, model |-> st.model,
              res |-> IF st.error = NoError
                      THEN <<st.ground_truth, st.prediction>>
                      ELSE None]

\* a plausible slip: every fold is fitted on a copy of the classifier, so the
\* object's own classifier is what it was before the run
CalcRun_FitsCopy(yv, k, binary, model, res, o) ==
    IF SplitError(Len(yv), k) # NoError
    THEN [error |-> SplitError(Len(yv), k), events |-> << >>,
          model |-> model, res |-> res]
    ELSE LET st == FoldLoop(LoopStart(model), 1, Splits(Len(yv), k), yv, binary, o)
         IN  [error |-> st.error, events |-> st.events, model |-> model,
              res |-> IF st.error = NoError
                      THEN <<st.ground_truth, st.prediction>>
                      ELSE res]

\* calc_cross_validation as a function of the object's fields and the
\* environment's choice o: the calls made, the error raised, the classifier
\* afterwards and the value of self._cross_val_res afterwards
CalcRun(yv, k, binary, model, res, o) ==
    IF SplitError(Len(yv), k) # NoError
    THEN [error |-> SplitError(Len(yv), k), events |-> << >>,
          model |-> model, res |-> res]
    ELSE LET st == FoldLoop(LoopStart(model), 1, Splits(Len(yv), k), yv, binary, o)
         IN  [error |-> st.error, events |-> st.events, model |-> st.model,
              res |-> IF st.error = NoError
                      THEN <<st.ground_truth, st.prediction>>
                      ELSE res]

CalcCrossValidation ==
    \E o \in RunOracles(NSamples, cv_splits) :
        \E r \in {CalcRun(y, cv_splits, is_binary, cov_model, cross_val_res, o)} :
            /\ cross_val_res' = r.res
            /\ cov_model' = r.model
            /\ last' = [op |-> "calc_cross_validation", arg |-> "",
                        error |-> r.error, events |-> r.events, result |-> << >>]
            /\ UNCHANGED <<y, cv_splits, is_binary>>
            /\ UNCHANGED splitter_vars

\* ------------------------------------------------------ get_cross_val_metric
\* The metric is the caller's function (ground_truth, prediction) -> scalar.
\* Two concrete ones stand for it: the summed absolute error, and an AUC in
\* percent that raises when the fold's ground truth holds a single class (as
\* sklearn.metrics.roc_auc_score does).

Metrics == {"abs_error", "roc_auc"}

Abs(x) == IF x < 0 THEN -x ELSE x

RECURSIVE SumSeq(_)
SumSeq(s) == IF s = << >> THEN 0 ELSE s[1] + SumSeq(Tail(s))

Positives(gt) == {p \in 1..Len(gt) : gt[p] = 1}
Negatives(gt) == {p \in 1..Len(gt) : gt[p] # 1}

SingleClass(gt) == Positives(gt) = {} \/ Negatives(gt) = {}

MetricRaises(m, gt, pr) == m = "roc_auc" /\ SingleClass(gt)

MetricValue(m, gt, pr) ==
    CASE m = "abs_error" -> SumSeq([p \in 1..Len(gt) |-> Abs(gt[p] - pr[p])])
      [] m = "roc_auc"   ->
            LET pairs == Positives(gt) \X Negatives(gt)
                wins  == {q \in pairs : pr[q[1]] > pr[q[2]]}
                ties  == {q \in pairs : pr[q[1]] = pr[q[2]]}
            IN  (100 * (2 * Cardinality(wins) + Cardinality(ties)))
                    \div (2 * Cardinality(pairs))

\* a plausible slip: the loop stops one fold short, range(self._cv_splits - 1)
RECURSIVE MetricLoop_ShortRange(_, _, _, _, _, _)
MetricLoop_ShortRange(st, i, k, m, ground_truth, prediction) ==
    IF i >= k - 1 \/ st.error # NoError THEN st
    ELSE IF MetricRaises(m, ground_truth[i + 1], prediction[i + 1])
    THEN [st EXCEPT !.events = Append(@, <<"metric", <<i>> >>),
                    !.error = "MetricError"]
    ELSE MetricLoop_ShortRange(
             [st EXCEPT !.events = Append(@, <<"metric", <<i>> >>),
                        !.res = Append(@, MetricValue(m, ground_truth[i + 1],
                                                      prediction[i + 1]))],
             i + 1, k, m, ground_truth, prediction)

\* the loop "for i in range(self._cv_splits): res.append(metric(...))":
\* i is the 0-based fold, st holds res, the metric calls made and the error
RECURSIVE MetricLoop(_, _, _, _, _, _)
MetricLoop(st, i, k, m, ground_truth, prediction) ==
    IF i >= k \/ st.error # NoError THEN st
    ELSE IF i + 1 > Len(ground_truth) \/ i + 1 > Len(prediction)
    THEN [st EXCEPT !.error = "IndexError"]
    ELSE IF MetricRaises(m, ground_truth[i + 1], prediction[i + 1])
    THEN MetricLoop([st EXCEPT !.events = Append(@, <<"metric", <<i>> >>),
                               !.error = "MetricError"],
                    i + 1, k, m, ground_truth, prediction)
    ELSE MetricLoop([st EXCEPT !.events = Append(@, <<"metric", <<i>> >>),
                               !.res = Append(@, MetricValue(m, ground_truth[i + 1],
                                                             prediction[i + 1]))],
                    i + 1, k, m, ground_truth, prediction)

\* a plausible slip: the guard is dropped and every access runs the
\* cross-validation again (here with a classifier that scores every row 0 when
\* the cache was populated)
EnsureRun_Always(yv, k, binary, model, res, o) ==
    CalcRun(yv, k, binary, model, res,
            IF res = None THEN o
            ELSE [fail |-> NoFail,
                  preds |-> [f \in 1..k |->
                                [p \in 1..TestSize(Len(yv), k) |-> 0]]])

\* "if self._cross_val_res is None: self.calc_cross_validation()"
EnsureRun(yv, k, binary, model, res, o) ==
    IF res = None
    THEN CalcRun(yv, k, binary, model, res, o)
    ELSE [error |-> NoError, events |-> << >>, model |-> model, res |-> res]

\* a plausible slip: a raising metric is swallowed and the scores collected
\* before it are handed back
MetricRun_PartialResult(yv, k, binary, model, res, m, o) ==
    LET r == EnsureRun(yv, k, binary, model, res, o)
    IN  IF r.error # NoError
        THEN [error |-> r.error, events |-> r.events, model |-> r.model,
              res |-> r.res, result |-> << >>]
        ELSE LET st == MetricLoop([res |-> << >>, events |-> << >>, error |-> NoError],
                                  0, k, m, r.res[1], r.res[2])
             IN  [error |-> st.error, events |-> r.events \o st.events,
                  model |-> r.model, res |-> r.res, result |-> st.res]

\* get_cross_val_metric(metric): the calls made, the error raised or the list
\* returned, the classifier and the cache afterwards
MetricRun(yv, k, binary, model, res, m, o) ==
    LET r == EnsureRun(yv, k, binary, model, res, o)
    IN  IF r.error # NoError
        THEN [error |-> r.error, events |-> r.events, model |-> r.model,
              res |-> r.res, result |-> << >>]
        ELSE LET st == MetricLoop([res |-> << >>, events |-> << >>, error |-> NoError],
                                  0, k, m, r.res[1], r.res[2])
             IN  [error |-> st.error, events |-> r.events \o st.events,
                  model |-> r.model, res |-> r.res,
                  result |-> IF st.error = NoError THEN st.res ELSE << >>]

GetCrossValMetric ==
    \E m \in Metrics :
    \E o \in (IF cross_val_res = None
              THEN RunOracles(NSamples, cv_splits)
              ELSE {[fail |-> NoFail, preds |-> << >>]}) :
        \E r \in {MetricRun(y, cv_splits, is_binary, cov_model, cross_val_res, m, o)} :
            /\ cross_val_res' = r.res
            /\ cov_model' = r.model
            /\ last' = [op |-> "get_cross_val_metric", arg |-> m,
                        error |-> r.error, events |-> r.events, result |-> r.result]
            /\ UNCHANGED <<y, cv_splits, is_binary>>
            /\ UNCHANGED splitter_vars

\* -------------------------------------------------- plot_cross_validation_roc

\* mean_fpr = np.linspace(0, 1, 100)
GridPoints == 100
\* "ground_truth, pred_probability, pred = self._cross_val_res" unpacks three
UnpackArity == 3
\* a true-positive rate t in 0..TprUnit stands for t / TprUnit
TprUnit == 4

ISqrt(n) == CHOOSE r \in 0..n : r * r <= n /\ (r + 1) * (r + 1) > n

Min(a, b) == IF a < b THEN a ELSE b
Max(a, b) == IF a > b THEN a ELSE b

\* The per-fold ROC curve (RocCurveDisplay.from_predictions) interpolated on
\* the grid (np.interp) comes from sklearn and numpy: any vector of rates.
InterpCurves(k) == [1..k -> [1..GridPoints -> 0..TprUnit]]

\* interp_tpr[0] = 0.0
PinFirst(interp_tpr) == [interp_tpr EXCEPT ![1] = 0]

\* lines 100-117 on the pinned per-fold vectors tprs; every returned rate is in
\* units of 1 / (Len(tprs) * TprUnit), the standard deviation rounded down
AggregateRoc(tprs) ==
    LET n      == Len(tprs)
        sum(g) == SumSeq([f \in 1..n |-> tprs[f][g]])
        sq(g)  == SumSeq([f \in 1..n |-> tprs[f][g] * tprs[f][g]])
        mean   == [g \in 1..GridPoints |->
                      IF g = GridPoints THEN n * TprUnit ELSE sum(g)]
        std    == [g \in 1..GridPoints |-> ISqrt(n * sq(g) - sum(g) * sum(g))]
    IN  [mean_tpr   |-> mean,
         tprs_upper |-> [g \in 1..GridPoints |-> Min(mean[g] + std[g], n * TprUnit)],
         tprs_lower |-> [g \in 1..GridPoints |-> Max(mean[g] - std[g], 0)]]

RocEvents(k) == [f \in 1..k |-> <<"roc_curve", <<f - 1>> >>]

\* plot_cross_validation_roc up to the figure: r is what ensuring the cache did
PlotCrossValidationRoc ==
    \E o \in (IF cross_val_res = None
              THEN RunOracles(NSamples, cv_splits)
              ELSE {[fail |-> NoFail, preds |-> << >>]}) :
        \E r \in {EnsureRun(y, cv_splits, is_binary, cov_model, cross_val_res, o)} :
            /\ cross_val_res' = r.res
            /\ cov_model' = r.model
            /\ UNCHANGED <<y, cv_splits, is_binary>>
            /\ UNCHANGED splitter_vars
            /\ IF r.error # NoError
               THEN last' = [op |-> "plot_cross_validation_roc", arg |-> "",
                             error |-> r.error, events |-> r.events,
                             result |-> << >>]
               ELSE IF Len(r.res) # UnpackArity
               THEN \* ValueError: not enough values to unpack
                    last' = [op |-> "plot_cross_validation_roc", arg |-> "",
                             error |-> "ValueError:unpack", events |-> r.events,
                             result |-> << >>]
               ELSE \E curves \in InterpCurves(cv_splits) :
                    LET agg == AggregateRoc([f \in 1..cv_splits |->
                                                PinFirst(curves[f])])
                    IN  last' = [op |-> "plot_cross_validation_roc", arg |-> "",
                                 error |-> NoError,
                                 events |-> r.events \o RocEvents(cv_splits),
                                 result |-> <<agg.mean_tpr, agg.tprs_lower,
                                              agg.tprs_upper>>]

\* ------------------------------------------------- the covariate model's calls

\* train_idxs: None, or the first sample index alone
TrainInputs == {None, <<0>>}

\* idxs: the default slice(None), that is every row
IdxInputs == {Indices(NSamples)}

\* rows of a data frame handed to predict_covariate_probability
MaxRows == 1

\* a plausible slip: refitting the classifier drops the cached results
FitCovariateModel_Invalidates ==
    \E train_idxs \in TrainInputs, ok \in BOOLEAN :
        LET train == IF train_idxs = None THEN Indices(NSamples) ELSE train_idxs
        IN  /\ cov_model' = IF ok THEN FittedOn(train) ELSE cov_model
            /\ last' = [op |-> "fit_covariate_model", arg |-> "",
                        error |-> IF ok THEN NoError ELSE "FitError",
                        events |-> << <<"fit", train>> >>, result |-> << >>]
            /\ cross_val_res' = None
            /\ UNCHANGED <<y, cv_splits, is_binary>>
            /\ UNCHANGED splitter_vars

FitCovariateModel ==
    \E train_idxs \in TrainInputs, ok \in BOOLEAN :
        LET train == IF train_idxs = None THEN Indices(NSamples) ELSE train_idxs
        IN  /\ cov_model' = IF ok THEN FittedOn(train) ELSE cov_model
            /\ last' = [op |-> "fit_covariate_model", arg |-> "",
                        error |-> IF ok THEN NoError ELSE "FitError",
                        events |-> << <<"fit", train>> >>, result |-> << >>]
            /\ UNCHANGED <<y, cv_splits, is_binary, cross_val_res>>
            /\ UNCHANGED splitter_vars

\* what predict_proba(...)[:, 1] or predict(...) gives for rows outside a
\* cross-validation run: an error (the classifier was never fitted, or raises)
\* or one score per row, here the same score for every row of the call
PredictOutcomes(model, n_rows) ==
    IF ~ model.fitted
    THEN {[error |-> "NotFittedError", scores |-> << >>]}
    ELSE {[error |-> "PredictError", scores |-> << >>]}
         \cup {[error |-> NoError, scores |-> [p \in 1..n_rows |-> s]] : s \in Scores}

GetCovariateProbability ==
    \E idxs \in IdxInputs :
    \E out \in PredictOutcomes(cov_model, Len(idxs)) :
        /\ last' = [op |-> "get_covariate_probability", arg |-> "",
                    error |-> out.error,
                    events |-> << <<PredictCall(is_binary), idxs>> >>,
                    result |-> out.scores]
        /\ UNCHANGED <<y, cv_splits, is_binary, cov_model, cross_val_res>>
        /\ UNCHANGED splitter_vars

PredictCovariateProbability ==
    \E n_rows \in 1..MaxRows :
    \E out \in PredictOutcomes(cov_model, n_rows) :
        /\ last' = [op |-> "predict_covariate_probability", arg |-> "",
                    error |-> out.error,
                    events |-> << <<PredictCall(is_binary), << >> >> >>,
                    result |-> out.scores]
        /\ UNCHANGED <<y, cv_splits, is_binary, cov_model, cross_val_res>>
        /\ UNCHANGED splitter_vars

GetResiduals ==
    \E idxs \in IdxInputs :
    \E out \in PredictOutcomes(cov_model, Len(idxs)) :
        /\ last' = [op |-> "get_residuals", arg |-> "",
                    error |-> out.error,
                    events |-> << <<PredictCall(is_binary), idxs>> >>,
                    result |-> IF out.error # NoError THEN << >>
                               ELSE [p \in 1..Len(idxs) |->
                                        out.scores[p] - Take(y, idxs)[p]]]
        /\ UNCHANGED <<y, cv_splits, is_binary, cov_model, cross_val_res>>
        /\ UNCHANGED splitter_vars

\* ------------------------------------------------------------ specification

LabelVectors ==
    UNION {[1..n -> Labels] : n \in 1..MaxN}
    \cup {<<0, 1>> \o t : t \in [1..WideTested -> Labels]}

\* Predictor.__init__ on one of these data sets; the short ones come with a
\* boolean or a numeric predictand, the long ones with a boolean one
Init ==
    /\ y \in LabelVectors
    /\ cv_splits \in 1..MaxK
    /\ is_binary \in (IF Len(y) <= MaxN THEN BOOLEAN ELSE {TRUE})
    /\ cov_model = Unfitted
    /\ cross_val_res = None
    /\ last = [op |-> "__init__", arg |-> "", error |-> NoError,
               events |-> << >>, result |-> << >>]
    /\ split_n = 0
    /\ split_k = 0
    /\ split_pc = "unused"
    /\ split_out = << >>

Next ==
    \/ FitCovariateModel
    \/ GetCovariateProbability
    \/ PredictCovariateProbability
    \/ GetResiduals
    \/ CalcCrossValidation
    \/ GetCrossValMetric
    \/ PlotCrossValidationRoc

Spec == Init /\ [][Next]_vars

\* ----------------------------------------------------- the splitter run alone
\* The loop header of calc_cross_validation, "enumerate(cv.split(self._X,
\* self._y))", with the classifier left out: the constructor, then the
\* generator advanced one split at a time until it is exhausted.

SplitSizes == (1..MaxSplitN) \cup ScenarioSizes

InitSplit ==
    /\ split_n \in SplitSizes
    /\ split_k \in 0..MaxSplitK
    /\ split_pc = "new"
    /\ split_out = << >>
    /\ y = <<0>>
    /\ cv_splits = 0
    /\ is_binary = TRUE
    /\ cov_model = Unfitted
    /\ cross_val_res = None
    /\ last = [op |-> "__init__", arg |-> "", error |-> NoError,
               events |-> << >>, result |-> << >>]

\* cv = TimeSeriesSplit(n_splits=self._cv_splits)
SplitterConstruct ==
    /\ split_pc = "new"
    /\ split_pc' = IF SplitterCtorOk(split_k) THEN "ready" ELSE "error"
    /\ UNCHANGED <<split_n, split_k, split_out>>
    /\ UNCHANGED predictor_vars

\* the for statement asks the generator for its next (train, test)
SplitterAdvance ==
    /\ split_pc \in {"ready", "iterating"}
    /\ IF split_pc = "ready" /\ SplitError(split_n, split_k) # NoError
       THEN split_pc' = "error" /\ split_out' = split_out
       ELSE IF Len(split_out) < Len(Splits(split_n, split_k))
       THEN /\ split_pc' = "iterating"
            /\ split_out' = Append(split_out,
                                   Splits(split_n, split_k)[Len(split_out) + 1])
       ELSE split_pc' = "done" /\ split_out' = split_out
    /\ UNCHANGED <<split_n, split_k>>
    /\ UNCHANGED predictor_vars

NextSplit == SplitterConstruct \/ SplitterAdvance

SpecSplit == InitSplit /\ [][NextSplit]_vars

\* ================================================================== claims

\* ---- properties of a sequence of splits

Last(s) == s[Len(s)]

\* a non-empty block of consecutive indices
ContiguousBlock(idxs) ==
    /\ Len(idxs) >= 1
    /\ \A p \in 1..(Len(idxs) - 1) : idxs[p + 1] = idxs[p] + 1

\* train is exactly every index before the first test index, in order, and so
\* every test index is greater than every train index
TrainPrecedesTest(sp) ==
    /\ sp.train = [p \in 1..sp.test[1] |-> p - 1]
    /\ \A a \in SeqToSet(sp.train), b \in SeqToSet(sp.test) : a < b

\* test blocks are ordered and pairwise disjoint, each starting right after the
\* one before it
BlocksOrdered(out) ==
    /\ \A f \in 1..Len(out), g \in 1..Len(out) :
          f < g => /\ Last(out[f].test) < out[g].test[1]
                   /\ SeqToSet(out[f].test) \cap SeqToSet(out[g].test) = {}
    /\ \A f \in 1..(Len(out) - 1) : out[f + 1].test[1] = Last(out[f].test) + 1

\* the union of the test blocks is the tail of 0..n-1 that starts at the first
\* block
TestsCoverTail(out, n) ==
    UNION {SeqToSet(out[f].test) : f \in 1..Len(out)} = out[1].test[1]..(n - 1)

SplitsWellFormed(out, n, k) ==
    /\ Len(out) <= k
    /\ \A f \in 1..Len(out) :
          /\ ContiguousBlock(out[f].test)
          /\ TrainPrecedesTest(out[f])
          /\ SeqToSet(out[f].test) \subseteq 0..(n - 1)
    /\ BlocksOrdered(out)

SplitsComplete(out, n, k) ==
    /\ Len(out) = k
    /\ SplitsWellFormed(out, n, k)
    /\ TestsCoverTail(out, n)

\* C3 as stated: for K >= 2 and N >= K the splitter raises nothing and, once
\* exhausted, has yielded exactly K well-formed splits whose test blocks cover
\* a contiguous tail of 0..N-1.
C3_Original ==
    (split_k >= 2 /\ split_n >= split_k) =>
        /\ split_pc # "error"
        /\ split_pc = "done" => SplitsComplete(split_out, split_n, split_k)

\* C3 amended: the same for K >= 2 and N >= K + 1 (one sample more, so that the
\* first train set is not empty); with N = K the splitter raises instead. The
\* splits yielded so far are well formed at every moment of the iteration.
C3_Splits ==
    (split_k >= 2 /\ split_n >= split_k + 1) =>
        /\ split_pc # "error"
        /\ SplitsWellFormed(split_out, split_n, split_k)
        /\ split_pc = "done" => SplitsComplete(split_out, split_n, split_k)

\* an exhausted splitter that yielded K >= 2 splits with test blocks of
\* several indices
C3_Witness ==
    /\ split_pc = "done"
    /\ split_k >= 2
    /\ Len(split_out) = split_k
    /\ Len(split_out[1].test) >= 2
    /\ Len(split_out[1].train) >= 2

TestSizesOf(out) == [f \in 1..Len(out) |-> Len(out[f].test)]
TrainSizesOf(out) == [f \in 1..Len(out) |-> Len(out[f].train)]

\* C10 as stated: N = 100, K = 5 gives 5 folds with test blocks of 20 and
\* train sets of 20, 40, 60, 80 and 100 minus the last block (80).
C10_Original ==
    (split_n = 100 /\ split_k = 5 /\ split_pc = "done") =>
        /\ TestSizesOf(split_out) = <<20, 20, 20, 20, 20>>
        /\ TrainSizesOf(split_out) = <<20, 40, 60, 80, 80>>

\* C10 amended: N = 100, K = 5 gives 5 folds with test blocks of 16 = 100 div 6
\* and train sets of 20, 36, 52, 68 and 84.
C10_Scenario ==
    (split_n = 100 /\ split_k = 5 /\ split_pc = "done") =>
        /\ TestSizesOf(split_out) = <<16, 16, 16, 16, 16>>
        /\ TrainSizesOf(split_out) = <<20, 36, 52, 68, 84>>

C10_Witness ==
    split_n = 100 /\ split_k = 5 /\ split_pc = "done" /\ Len(split_out) = 5

\* ---- the calls of one operation

CVOps == {"calc_cross_validation", "get_cross_val_metric",
          "plot_cross_validation_roc"}
EnsuringOps == {"get_cross_val_metric", "plot_cross_validation_roc"}
ClassifierErrors == {"FitError", "PredictError"}
SplitErrors == {"ValueError:n_splits", "ValueError:n_samples"}

CallsOf(ev, names) == {p \in 1..Len(ev) : ev[p][1] \in names}
Fits(ev) == Cardinality(CallsOf(ev, {"fit"}))
Predicts(ev) == Cardinality(CallsOf(ev, {"predict", "predict_proba"}))

\* the calls of ev with a name in names, in order
RECURSIVE Only(_, _)
Only(ev, names) ==
    IF ev = << >> THEN << >>
    ELSE IF ev[1][1] \in names THEN <<ev[1]>> \o Only(Tail(ev), names)
    ELSE Only(Tail(ev), names)

\* C1: on a populated cache, get_cross_val_metric and plot_cross_validation_roc
\* call neither fit nor predict and leave the cache as it is, and the same
\* metric applied twice in a row returns the same scores (or raises the same
\* error).
C1_CachedRunIdempotent ==
    [][ /\ (cross_val_res # None /\ last'.op \in EnsuringOps) =>
              /\ Fits(last'.events) = 0
              /\ Predicts(last'.events) = 0
              /\ cross_val_res' = cross_val_res
        /\ (/\ cross_val_res # None
            /\ last.op = "get_cross_val_metric"
            /\ last'.op = "get_cross_val_metric"
            /\ last'.arg = last.arg) =>
              /\ last'.result = last.result
              /\ last'.error = last.error ]_vars

\* a metric returned the scores of a two-row-per-fold cache without any fit:
\* the cache was populated before the call
C1_Witness ==
    /\ last.op = "get_cross_val_metric"
    /\ last.error = NoError
    /\ last.arg = "roc_auc"
    /\ Fits(last.events) = 0
    /\ Len(last.result) = cv_splits
    /\ cross_val_res # None

NonDegenerate(res) ==
    /\ res # None
    /\ \A f \in 1..Len(res[1]) : ~ SingleClass(res[1][f])

\* C2: plot_cross_validation_roc, once the cache is populated with
\* non-degenerate folds, raises nothing and computes the ROC curve of every
\* fold 0..K-1 in order.
C2_PlotCompletes ==
    (last.op = "plot_cross_validation_roc" /\ NonDegenerate(cross_val_res)) =>
        /\ last.error = NoError
        /\ Only(last.events, {"roc_curve"}) = RocEvents(cv_splits)

\* the fold whose fit or predict raised: every fold up to it was fitted
FailedFold(ev) == Fits(ev) - 1

\* C4 as stated: after a run in which the fit or predict of fold j raised, the
\* cache holds exactly the results of folds 0..j-1.
C4_Original ==
    (last.op \in CVOps /\ last.error \in ClassifierErrors) =>
        /\ cross_val_res # None
        /\ Len(cross_val_res[1]) = FailedFold(last.events)
        /\ Len(cross_val_res[2]) = FailedFold(last.events)

\* C4 amended: a run in which the fit or predict of some fold raises leaves the
\* cache exactly as it was before the call (empty, or the earlier complete
\* results); the error is the call's outcome and nothing is returned.
C4_FailedRunKeepsCache ==
    [][ (last'.op \in CVOps /\ last'.error \in ClassifierErrors) =>
            /\ cross_val_res' = cross_val_res
            /\ last'.result = << >> ]_vars

\* the predict of the second fold raised in the first run: nothing is cached
C4_Witness ==
    /\ last.op = "calc_cross_validation"
    /\ last.error = "PredictError"
    /\ FailedFold(last.events) = 1
    /\ cross_val_res = None

\* C5 as stated: the cache is computed only from Empty (Empty -> Computing ->
\* Populated), so no run is made while it is populated.
C5_Original ==
    [][ (cross_val_res # None /\ last'.op \in CVOps) =>
            Fits(last'.events) = 0 ]_vars

FullRun(ev, k) ==
    /\ Fits(ev) = k
    /\ Predicts(ev) = k

\* C5 amended: the cache starts empty, becomes populated only by a complete
\* run of K fits and K predicts (calc_cross_validation, or an ensuring access
\* on the empty cache) and is never empty again; a populated cache changes only
\* by calc_cross_validation, which runs all K folds again at once.
C5_CacheLifecycle ==
    /\ cross_val_res = None
    /\ [][ /\ cross_val_res # None => cross_val_res' # None
           /\ cross_val_res' # cross_val_res =>
                 /\ last'.op \in CVOps
                 /\ last'.error \notin ClassifierErrors \cup SplitErrors
                 /\ FullRun(last'.events, cv_splits)
                 /\ cross_val_res # None => last'.op = "calc_cross_validation"
           /\ (last'.op = "calc_cross_validation" /\ last'.error = NoError) =>
                 FullRun(last'.events, cv_splits) ]_vars

\* a recomputation that raised with the cache populated, which stays populated
C5_Witness ==
    /\ last.op = "calc_cross_validation"
    /\ last.error \in ClassifierErrors
    /\ cross_val_res # None

\* C6: a get_cross_val_metric that returns gives K scalars, the i-th the
\* metric of fold i's cached ground truth and prediction, the metric called
\* once per fold in increasing order, nothing aggregated; it ran the
\* cross-validation fully or not at all.
C6_Score ==
    (last.op = "get_cross_val_metric" /\ last.error = NoError) =>
        /\ cross_val_res # None
        /\ Len(last.result) = cv_splits
        /\ \A i \in 1..cv_splits :
              last.result[i] = MetricValue(last.arg, cross_val_res[1][i],
                                           cross_val_res[2][i])
        /\ Only(last.events, {"metric"}) =
              [i \in 1..cv_splits |-> <<"metric", <<i - 1>> >>]
        /\ Fits(last.events) \in {0, cv_splits}

\* three scores returned by the call that also populated the cache
C6_Witness ==
    /\ last.op = "get_cross_val_metric"
    /\ last.error = NoError
    /\ cv_splits = 3
    /\ Len(last.result) = 3
    /\ Fits(last.events) = 3

\* C7: with K < 2, or fewer samples than folds, a cross-validation run raises
\* the splitter's error before any classifier call and leaves the cache as it
\* was.
C7_InvalidFoldCount ==
    [][ (last'.op \in CVOps /\ (cv_splits < 2 \/ NSamples < cv_splits)) =>
            /\ last'.error \in SplitErrors
            /\ last'.events = << >>
            /\ cross_val_res' = cross_val_res
            /\ cross_val_res' = None ]_vars

C7_Witness ==
    /\ last.op = "get_cross_val_metric"
    /\ cv_splits = 1
    /\ last.error = "ValueError:n_splits"
    /\ last.events = << >>
    /\ cross_val_res = None

\* C8: every plot_cross_validation_roc on non-degenerate folds yields a mean
\* curve whose first point is 0 and whose last point is 1.
C8_RocPinned ==
    (last.op = "plot_cross_validation_roc" /\ NonDegenerate(cross_val_res)) =>
        /\ last.result # << >>
        /\ last.result[1][1] = 0
        /\ last.result[1][GridPoints] = cv_splits * TprUnit

\* C9: every plot_cross_validation_roc on non-degenerate folds yields a band
\* with 0 <= lower <= mean <= upper <= 1 at every grid point.
C9_BandValid ==
    (last.op = "plot_cross_validation_roc" /\ NonDegenerate(cross_val_res)) =>
        /\ last.result # << >>
        /\ \A g \in 1..GridPoints :
              /\ 0 <= last.result[2][g]
              /\ last.result[2][g] <= last.result[1][g]
              /\ last.result[1][g] <= last.result[3][g]
              /\ last.result[3][g] <= cv_splits * TprUnit

\* ---- the classifier and the cache across calls

CovariateOps == {"fit_covariate_model", "get_covariate_probability",
                 "predict_covariate_probability", "get_residuals"}

\* C11: fit_covariate_model, get_covariate_probability,
\* predict_covariate_probability and get_residuals leave the cache exactly as
\* it was; the cache changes only by calc_cross_validation or by an ensuring
\* access that found it empty.
C11_CacheFrame ==
    [][ /\ last'.op \in CovariateOps => cross_val_res' = cross_val_res
        /\ cross_val_res' # cross_val_res =>
              \/ last'.op = "calc_cross_validation"
              \/ (last'.op \in EnsuringOps /\ cross_val_res = None) ]_vars

\* the classifier was refitted on all the data after the cache was populated,
\* and the cache is still there
C11_Witness ==
    /\ last.op = "fit_covariate_model"
    /\ last.error = NoError
    /\ cov_model = FittedOn(Indices(NSamples))
    /\ cross_val_res # None
    /\ Len(cross_val_res[1]) = cv_splits

MetricCalls(ev) == Cardinality(CallsOf(ev, {"metric"}))

\* C12: when the metric raises on some fold, get_cross_val_metric ends with
\* that error and returns nothing, not even the scores of the folds before;
\* the cache is populated afterwards, and unchanged if it was populated
\* before; the next call with a metric that raises nothing returns K scores
\* without any fit.
C12_MetricRaises ==
    [][ /\ (last'.op = "get_cross_val_metric" /\ last'.error = "MetricError") =>
              /\ last'.result = << >>
              /\ cross_val_res' # None
              /\ cross_val_res # None =>
                    /\ cross_val_res' = cross_val_res
                    /\ Fits(last'.events) = 0
        /\ (/\ last.op = "get_cross_val_metric"
            /\ last.error = "MetricError"
            /\ last'.op = "get_cross_val_metric"
            /\ last'.arg = "abs_error") =>
              /\ last'.error = NoError
              /\ Len(last'.result) = cv_splits
              /\ Fits(last'.events) = 0
              /\ cross_val_res' = cross_val_res ]_vars

\* the metric raised on the second fold of a populated cache, after it had
\* scored the first
C12_Witness ==
    /\ last.op = "get_cross_val_metric"
    /\ last.error = "MetricError"
    /\ MetricCalls(last.events) = 2
    /\ Fits(last.events) = 0
    /\ cross_val_res # None

ClassifierCalls(ev) == Only(ev, {"fit", "predict", "predict_proba"})

\* a run was made and ended without a classifier error
RanToEnd(l) ==
    /\ l.op \in CVOps
    /\ Fits(l.events) > 0
    /\ l.error \notin ClassifierErrors

\* the classifier calls cs alternate fit, predict, fit, predict, ...; every
\* predict follows the fit of its own fold, whose train indices are all
\* earlier than the fold's test indices; later folds test later indices
FitThenPredict(cs) ==
    /\ \A p \in 1..Len(cs) :
          cs[p][1] = IF p % 2 = 1 THEN "fit" ELSE PredictCall(is_binary)
    /\ \A p \in 1..Len(cs) :
          p % 2 = 0 =>
              /\ \A a \in SeqToSet(cs[p - 1][2]), b \in SeqToSet(cs[p][2]) : a < b
              /\ cs[p - 1][2] = [q \in 1..cs[p][2][1] |-> q - 1]
    /\ \A p \in 1..Len(cs), q \in 1..Len(cs) :
          (p % 2 = 0 /\ q % 2 = 0 /\ p < q) =>
              \A a \in SeqToSet(cs[p][2]), b \in SeqToSet(cs[q][2]) : a < b

\* C13: the classifier calls of a run are fit(train_0), predict(test_0),
\* fit(train_1), predict(test_1), ... in increasing fold order, also in a run
\* that a raising fold cuts short; after a run that went to its end there are
\* K such pairs and the ground truth cached for fold i is the labels at
\* test_i.
C13_FoldOrder ==
    last.op \in CVOps =>
        /\ FitThenPredict(ClassifierCalls(last.events))
        /\ RanToEnd(last) =>
              /\ Len(ClassifierCalls(last.events)) = 2 * cv_splits
              /\ cross_val_res # None
              /\ \A i \in 1..cv_splits :
                    /\ cross_val_res[1][i] =
                          Take(y, ClassifierCalls(last.events)[2 * i][2])
                    /\ Len(cross_val_res[2][i]) =
                          Len(ClassifierCalls(last.events)[2 * i][2])

\* a run of three folds that went to its end
C13_Witness ==
    /\ last.op = "calc_cross_validation"
    /\ last.error = NoError
    /\ cv_splits = 3
    /\ Len(ClassifierCalls(last.events)) = 6

\* the train indices of the last fit among the calls ev
LastFitTrain(ev) == Last(Only(ev, {"fit"}))[2]

\* C14: a run that went to its end leaves the classifier fitted on the last
\* fold's train indices, which are not all the data, whatever it was fitted on
\* before; get_covariate_probability, predict_covariate_probability and
\* get_residuals use the classifier as it is and leave it so; an ensuring
\* access on a populated cache leaves the classifier as it is.
C14_ClassifierAfterRun ==
    [][ /\ RanToEnd(last') =>
              /\ cov_model' = FittedOn(LastFitTrain(last'.events))
              /\ Len(cov_model'.train) < NSamples
              /\ Fits(last'.events) = cv_splits
        /\ (cross_val_res # None /\ last'.op \in EnsuringOps) =>
              cov_model' = cov_model
        /\ last'.op \in CovariateOps \ {"fit_covariate_model"} =>
              /\ cov_model' = cov_model
              /\ last'.error = "NotFittedError" <=> ~ cov_model.fitted ]_vars

\* residuals taken from the classifier that the two-fold run on six samples
\* left fitted on the first four
C14_Witness ==
    /\ last.op = "get_residuals"
    /\ last.error = NoError
    /\ NSamples = 6
    /\ cv_splits = 2
    /\ cross_val_res # None
    /\ cov_model = FittedOn(<<0, 1, 2, 3>>)

\* the cache holds K ground-truth entries and K prediction entries, entry i of
\* each as long as fold i's test block
CacheComplete ==
    /\ Len(cross_val_res) = 2
    /\ Len(cross_val_res[1]) = cv_splits
    /\ Len(cross_val_res[2]) = cv_splits
    /\ \A i \in 1..cv_splits :
          /\ Len(cross_val_res[1][i]) = NSamples \div (cv_splits + 1)
          /\ Len(cross_val_res[2][i]) = NSamples \div (cv_splits + 1)

\* C15: in every state the cache is absent or complete, also after runs that
\* a raising fold cut short, so the loop of get_cross_val_metric never indexes
\* past it; once populated it is never absent again.
C15_CacheAtomic ==
    /\ [](/\ cross_val_res = None \/ CacheComplete
          /\ last.error # "IndexError")
    /\ [][cross_val_res # None => cross_val_res' # None]_vars

\* the fit of the second fold raised in a recomputation, and the cache still
\* holds both folds of two rows each
C15_Witness ==
    /\ last.op = "calc_cross_validation"
    /\ last.error = "FitError"
    /\ FailedFold(last.events) = 1
    /\ cross_val_res # None
    /\ Len(cross_val_res[2]) = 2
    /\ Len(cross_val_res[2][1]) = 2

====
